---- MODULE Spec2Model ----
(***************************************************************************)
(* NewsPulse bot (news_bot.py): the three Telegram handlers (start,        *)
(* handle_query, search_news) and the coroutine get_news they call.        *)
(*                                                                         *)
(* Strings are sequences of one-character strings, so that the dictionary  *)
(* lookup, str.capitalize, str.replace and the f-string that builds the    *)
(* request URL work on characters, as the code does.                       *)
(***************************************************************************)
EXTENDS Integers, Sequences, FiniteSets, TLC

\* ------------------------------------------------------------------ bounds

\* Inbound events (updates) of one behaviour of the bot.
MaxEvents == 3
\* Length of the article list of a provider response.
MaxArticles == 6
\* Length of an article field in the escaping specification.
MaxFieldLen == 3
\* Length of a free-text message in the URL specification.
MaxTextLen == 3

\* ------------------------------------------------------------------ strings

tech == <<"t", "e", "c", "h">>
stocks == <<"s", "t", "o", "c", "k", "s">>
ai == <<"a", "i">>
crypto == <<"c", "r", "y", "p", "t", "o">>
start_key == <<"s", "t", "a", "r", "t">>

\* get_news, query_map
query_map ==
    (stocks :> <<"s", "t", "o", "c", "k", " ", "m", "a", "r", "k", "e", "t">>)
 @@ (ai :> <<"a", "r", "t", "i", "f", "i", "c", "i", "a", "l", " ",
             "i", "n", "t", "e", "l", "l", "i", "g", "e", "n", "c", "e">>)
 @@ (crypto :> <<"c", "r", "y", "p", "t", "o", "c", "u", "r", "r", "e", "n", "c", "y">>)
 @@ (tech :> <<"t", "e", "c", "h", "n", "o", "l", "o", "g", "y">>)

\* query = query_map.get(topic, topic)
resolve_query_lower(topic) ==
    LET low == [i \in 1..Len(topic) |->
                  CASE topic[i] = "T" -> "t" [] topic[i] = "E" -> "e"
                    [] topic[i] = "C" -> "c" [] topic[i] = "H" -> "h"
                    [] topic[i] = "A" -> "a" [] topic[i] = "I" -> "i"
                    [] OTHER -> topic[i]]
    IN IF low \in DOMAIN query_map THEN query_map[low] ELSE topic

resolve_query(topic) ==
    IF topic \in DOMAIN query_map THEN query_map[topic] ELSE topic

\* The fallback defaults of the article loop.
NoTitle == <<"N", "o", " ", "t", "i", "t", "l", "e">>
NoDescription == <<"N", "o", " ", "d", "e", "s", "c", "r", "i", "p", "t", "i", "o", "n", " ",
                   "a", "v", "a", "i", "l", "a", "b", "l", "e", ".">>
UnknownSource == <<"U", "n", "k", "n", "o", "w", "n", " ", "S", "o", "u", "r", "c", "e">>

\* str.replace(old, new) for a one-character old.
RECURSIVE replace(_, _, _)
replace(s, old, new) ==
    IF s = <<>> THEN <<>>
    ELSE (IF Head(s) = old THEN new ELSE <<Head(s)>>) \o replace(Tail(s), old, new)

\* The escaping chain with the "_" replacement forgotten.
escape_no_underscore(s) ==
    replace(replace(replace(s, "[", <<"\\", "[">>), "]", <<"\\", "]">>), "*", <<"\\", "*">>)

\* x.replace("[", "\\[").replace("]", "\\]").replace("_", "\\_").replace("*", "\\*")
escape(s) ==
    replace(replace(replace(replace(s, "[", <<"\\", "[">>),
                            "]", <<"\\", "]">>),
                    "_", <<"\\", "_">>),
            "*", <<"\\", "*">>)

\* ------------------------------------------------------------------ JSON values

\* A member of a JSON object: absent, null, or a string.
JAbsent == [t |-> "absent", v |-> <<>>]
JNull == [t |-> "null", v |-> <<>>]
JStr(s) == [t |-> "str", v |-> s]

\* The "source" member of an article: absent, null, or an object with a "name".
SrcAbsent == [t |-> "absent", name |-> JAbsent]
SrcNull == [t |-> "null", name |-> JAbsent]
SrcObj(n) == [t |-> "object", name |-> n]

Article(ti, u, d, s) == [title |-> ti, url |-> u, description |-> d, source |-> s]

\* dict.get(key, default) on a member.
dict_get(member, default) == IF member.t = "absent" THEN JStr(default) ELSE member

\* "not x" for None and for a string.
falsy(x) == x.t = "null" \/ (x.t = "str" /\ x.v = <<>>)

\* if not x: x = default
or_default(x, default) == IF falsy(x) THEN default ELSE x.v

\* ------------------------------------------------------------------ get_news

\* articles = data.get("articles", [])[:5]
SliceLimit == 5

Min(a, b) == IF a < b THEN a ELSE b

\* str(None) inside the f-string of the title line.
NoneText == <<"N", "o", "n", "e">>

\* What the provider call of one get_news can come to: a transport failure, or a
\* response with a status code and a body; the body is not JSON ("invalid"), a JSON
\* value that is no object ("array"), or an object whose "articles" member is absent,
\* null or a list of article objects.
NoArticles == [t |-> "absent", items |-> <<>>]
NullArticles == [t |-> "null", items |-> <<>>]
ListArticles(items) == [t |-> "list", items |-> items]
InvalidBody == [t |-> "invalid", articles |-> NoArticles]
ArrayBody == [t |-> "array", articles |-> NoArticles]
ObjectBody(arts) == [t |-> "object", articles |-> arts]
NoOutcome == [t |-> "none", status |-> 0, body |-> InvalidBody]
TransportError == [t |-> "transport_error", status |-> 0, body |-> InvalidBody]
Response(status, body) == [t |-> "response", status |-> status, body |-> body]

\* What get_news comes to: it returns a text or an exception leaves it. The text is
\* the apology, the no-results message (with the query), or the article blocks; a
\* block stands for the three lines
\*   "• *[{title}]({url})*\n" "  `{description}`\n" "  *Source:* {source}\n\n".
NoNews == [t |-> "none", exc |-> "none", kind |-> "none", query |-> <<>>, blocks |-> <<>>]
Raise(e) == [t |-> "raise", exc |-> e, kind |-> "none", query |-> <<>>, blocks |-> <<>>]
Apology == [t |-> "return", exc |-> "none", kind |-> "apology", query |-> <<>>, blocks |-> <<>>]
NoResults(q) ==
    [t |-> "return", exc |-> "none", kind |-> "no_results", query |-> q, blocks |-> <<>>]
Rendered(bs) ==
    [t |-> "return", exc |-> "none", kind |-> "articles", query |-> <<>>, blocks |-> bs]

\* except (httpx.RequestError, json.JSONDecodeError)
caught(exc) == exc \in {"RequestError", "JSONDecodeError"}

\* The try block: client.get, response.raise_for_status, response.json. The
\* exception it raises, or "none".
fetch_exception(outcome) ==
    IF outcome.t = "transport_error" THEN "RequestError"
    ELSE IF outcome.status \notin 200..299 THEN "HTTPStatusError"
    ELSE IF outcome.body.t = "invalid" THEN "JSONDecodeError"
    ELSE "none"

\* The body of the article loop for one article whose "source" is not null.
article_block(a) ==
    LET title == or_default(dict_get(a.title, NoTitle), NoTitle)
        url == IF a.url.t = "absent" THEN <<>>
               ELSE IF a.url.t = "null" THEN NoneText ELSE a.url.v
        description == or_default(dict_get(a.description, NoDescription), NoDescription)
        source == or_default(dict_get(a.source.name, UnknownSource), UnknownSource)
    IN [title |-> escape(title), url |-> url,
        description |-> escape(description), source |-> escape(source)]

\* The article loop: the blocks, or the exception of the first article that raises
\* (article.get("source", {}) is None for a null source, and None has no get).
RECURSIVE article_loop(_)
article_loop(arts) ==
    IF arts = <<>> THEN [exc |-> "none", blocks |-> <<>>]
    ELSE IF Head(arts).source.t = "null" THEN [exc |-> "AttributeError", blocks |-> <<>>]
    ELSE LET rest == article_loop(Tail(arts))
         IN IF rest.exc # "none" THEN rest
            ELSE [exc |-> "none", blocks |-> <<article_block(Head(arts))>> \o rest.blocks]

\* [:5]
slice(items) == SubSeq(items, 1, Min(Len(items), SliceLimit))

\* get_news from the provider's outcome on: what it returns or raises.
get_news_result(query, outcome) ==
    LET exc == fetch_exception(outcome)
    IN IF exc # "none" THEN (IF caught(exc) THEN Apology ELSE Raise(exc))
       ELSE IF outcome.body.t # "object" THEN Raise("AttributeError")
       ELSE IF outcome.body.articles.t = "null" THEN Raise("TypeError")
       ELSE LET articles == slice(outcome.body.articles.items)
            IN IF articles = <<>> THEN NoResults(query)
               ELSE LET done == article_loop(articles)
                    IN IF done.exc # "none" THEN Raise(done.exc) ELSE Rendered(done.blocks)

\* ------------------------------------------------------------------ the request URL

NEWS_API_KEY == <<"k", "e", "y">>

UrlBase == <<"h", "t", "t", "p", "s", ":", "/", "/", "n", "e", "w", "s", "a", "p", "i", ".",
             "o", "r", "g", "/", "v", "2", "/", "e", "v", "e", "r", "y", "t", "h", "i", "n", "g">>
P_q == <<"q">>
P_language == <<"l", "a", "n", "g", "u", "a", "g", "e">>
P_sortBy == <<"s", "o", "r", "t", "B", "y">>
P_apiKey == <<"a", "p", "i", "K", "e", "y">>
V_en == <<"e", "n">>
V_publishedAt == <<"p", "u", "b", "l", "i", "s", "h", "e", "d", "A", "t">>

\* url = f"https://newsapi.org/v2/everything?q={query}&language=en&sortBy=publishedAt&apiKey={NEWS_API_KEY}"
build_url(query) ==
    UrlBase \o <<"?">> \o P_q \o <<"=">> \o query
            \o <<"&">> \o P_language \o <<"=">> \o V_en
            \o <<"&">> \o P_sortBy \o <<"=">> \o V_publishedAt
            \o <<"&">> \o P_apiKey \o <<"=">> \o NEWS_API_KEY

\* The index of the first c in s, or 0.
find(s, c) ==
    IF \E i \in 1..Len(s) : s[i] = c
    THEN CHOOSE i \in 1..Len(s) : s[i] = c /\ \A k \in 1..(i - 1) : s[k] # c
    ELSE 0

\* s.split(c)
RECURSIVE split(_, _)
split(s, c) ==
    LET i == find(s, c)
    IN IF i = 0 THEN <<s>>
       ELSE <<SubSeq(s, 1, i - 1)>> \o split(SubSeq(s, i + 1, Len(s)), c)

\* client.get(url): what goes on the wire as the request target's query string. The
\* fragment (from the first "#") is not sent, and a space is sent as %20.
request_query(url) ==
    LET h == find(url, "#")
        sent == IF h = 0 THEN url ELSE SubSeq(url, 1, h - 1)
        q == find(sent, "?")
    IN IF q = 0 THEN <<>>
       ELSE replace(SubSeq(sent, q + 1, Len(sent)), " ", <<"%", "2", "0">>)

\* The provider decoding a name or a value of the query string: "+" and %20 are the
\* space.
RECURSIVE url_decode(_)
url_decode(s) ==
    IF s = <<>> THEN <<>>
    ELSE IF Head(s) = "+" THEN <<" ">> \o url_decode(Tail(s))
    ELSE IF Len(s) >= 3 /\ SubSeq(s, 1, 3) = <<"%", "2", "0">>
         THEN <<" ">> \o url_decode(SubSeq(s, 4, Len(s)))
    ELSE <<Head(s)>> \o url_decode(Tail(s))

\* The provider reading the query string: the (name, value) parameters, in order.
provider_params(qs) ==
    LET parts == SelectSeq(split(qs, "&"), LAMBDA p : p # <<>>)
        pair(p) == LET e == find(p, "=")
                   IN IF e = 0 THEN <<url_decode(p), <<>> >>
                      ELSE <<url_decode(SubSeq(p, 1, e - 1)),
                             url_decode(SubSeq(p, e + 1, Len(p)))>>
    IN [k \in 1..Len(parts) |-> pair(parts[k])]

\* The values the provider reads for the parameter called name, in order.
param_values(params, name) ==
    LET hits == SelectSeq(params, LAMBDA p : p[1] = name)
    IN [k \in 1..Len(hits) |-> hits[k][2]]

\* ------------------------------------------------------------------ keyboards and texts

\* get_main_keyboard: the callback_data of its buttons, in order.
get_main_keyboard == <<tech, stocks, ai, crypto>>

\* A result message sent with no reply_markup.
get_back_keyboard_none == <<>>

\* get_back_keyboard: the callback_data of its one button.
get_back_keyboard == <<start_key>>

LowerCase == <<"a", "b", "c", "d", "e", "f", "g", "h", "i", "j", "k", "l", "m",
               "n", "o", "p", "q", "r", "s", "t", "u", "v", "w", "x", "y", "z">>
UpperCase == <<"A", "B", "C", "D", "E", "F", "G", "H", "I", "J", "K", "L", "M",
               "N", "O", "P", "Q", "R", "S", "T", "U", "V", "W", "X", "Y", "Z">>

\* str.upper and str.lower of one character.
Letters == {LowerCase[i] : i \in 1..Len(LowerCase)} \cup {UpperCase[i] : i \in 1..Len(UpperCase)}
ToUpper ==
    [c \in Letters |-> IF \E i \in 1..Len(LowerCase) : LowerCase[i] = c
                       THEN UpperCase[CHOOSE i \in 1..Len(LowerCase) : LowerCase[i] = c]
                       ELSE c]
ToLower ==
    [c \in Letters |-> IF \E i \in 1..Len(UpperCase) : UpperCase[i] = c
                       THEN LowerCase[CHOOSE i \in 1..Len(UpperCase) : UpperCase[i] = c]
                       ELSE c]
upper(c) == IF c \in Letters THEN ToUpper[c] ELSE c
lower(c) == IF c \in Letters THEN ToLower[c] ELSE c

\* str.capitalize
capitalize(s) == [i \in 1..Len(s) |-> IF i = 1 THEN upper(s[i]) ELSE lower(s[i])]

\* A message of the bot in the chat: which of the six texts it shows (screen), the
\* topic_title and the news_message inside the text, and the callback_data of the
\* buttons under it (none: <<>>). by is the handler invocation that wrote it last.
Message(screen, title, news, markup, by) ==
    [screen |-> screen, topic_title |-> title, news |-> news, reply_markup |-> markup,
     by |-> by]

ResultScreens == {"latest", "search_results"}
MenuScreens == {"welcome", "welcome_back"}

\* ------------------------------------------------------------------ state

VARIABLES
    messages,   \* the bot's messages in the chat, in the order they were sent
    tasks,      \* the handler invocations, one per inbound update, in arrival order
    clobbered,  \* <<i, j>>: j has replaced what a concurrent i wrote into a message
    call        \* one direct call of get_news (the specifications of the function)

vars == <<messages, tasks, clobbered, call>>

\* A handler invocation: the handler, its update's data (callback_data or text), the
\* message its callback query belongs to (msg), the messages it has written (msgs),
\* where it is (pc), the HTTP requests it has sent, what the provider call came to and
\* what get_news came to. peers: the invocations that had not ended when its update
\* arrived.
Task(handler, data, msg, peers) ==
    [handler |-> handler, data |-> data, msg |-> msg, msgs |-> {}, pc |-> "pending",
     requests |-> 0, outcome |-> NoOutcome, news |-> NoNews, peers |-> peers]

Ended == {"done", "raised"}
Live == {i \in 1..Len(tasks) : tasks[i].pc \notin Ended}

\* A direct call of get_news: the topic it is given, where it is (pc), the query and
\* the url it computes, the query parameters the provider reads from the request
\* (params), what the provider call came to and what get_news came to.
NoCall == [pc |-> "none", topic |-> <<>>, query |-> <<>>, url |-> <<>>, params |-> <<>>,
           outcome |-> NoOutcome, result |-> NoNews]

Init ==
    /\ messages = <<>>
    /\ tasks = <<>>
    /\ clobbered = {}
    /\ call = NoCall

\* ------------------------------------------------------------------ the Telegram calls

Concurrent(i, j) == i \in tasks[j].peers \/ j \in tasks[i].peers

\* message.reply_text by invocation i: a new message at the end of the chat. after is
\* the invocation when its next await is reached.
reply_text(i, screen, title, news, markup, after) ==
    /\ messages' = Append(messages, Message(screen, title, news, markup, i))
    /\ tasks' = [tasks EXCEPT ![i] = [after EXCEPT !.msgs = @ \cup {Len(messages) + 1}]]
    /\ UNCHANGED clobbered

\* An edit that lands on the newest message of the chat.
edit_newest_message(i, screen, title, news, markup, after) ==
    LET m == Len(messages)
        old == messages[m].by
    IN /\ messages' = [messages EXCEPT ![m] = Message(screen, title, news, markup, i)]
       /\ tasks' = [tasks EXCEPT ![i] = [after EXCEPT !.msgs = @ \cup {tasks[i].msg}]]
       /\ clobbered' = IF old # i /\ Concurrent(old, i)
                       THEN clobbered \cup {<<old, i>>} ELSE clobbered

\* query.edit_message_text by invocation i: replaces the text and the buttons of the
\* message the callback query belongs to.
edit_message_text(i, screen, title, news, markup, after) ==
    LET m == tasks[i].msg
        old == messages[m].by
    IN /\ messages' = [messages EXCEPT ![m] = Message(screen, title, news, markup, i)]
       /\ tasks' = [tasks EXCEPT ![i] = [after EXCEPT !.msgs = @ \cup {m}]]
       /\ clobbered' = IF old # i /\ Concurrent(old, i)
                       THEN clobbered \cup {<<old, i>>} ELSE clobbered

\* ------------------------------------------------------------------ inbound updates

\* The user sends /start.
StartCommand(max) ==
    /\ Len(tasks) < max
    /\ tasks' = Append(tasks, Task("start", <<>>, 0, Live))
    /\ UNCHANGED <<messages, clobbered, call>>

\* The user presses a button shown under message m.
PressButton(max, keys) ==
    /\ Len(tasks) < max
    /\ \E m \in 1..Len(messages) : \E b \in 1..Len(messages[m].reply_markup) :
          /\ messages[m].reply_markup[b] \in keys
          /\ tasks' = Append(tasks, Task("handle_query", messages[m].reply_markup[b], m, Live))
    /\ UNCHANGED <<messages, clobbered, call>>

\* filters.TEXT & (~filters.COMMAND)
is_text(s) == s # <<>> /\ Head(s) # "/"

\* The user sends a text message that is no command.
SendText(max, texts) ==
    /\ Len(tasks) < max
    /\ \E s \in texts :
          /\ is_text(s)
          /\ tasks' = Append(tasks, Task("search_news", s, 0, Live))
    /\ UNCHANGED <<messages, clobbered, call>>

\* ------------------------------------------------------------------ handlers

\* The application starts the handlers in the order the updates arrived.
Dispatched(i) ==
    /\ tasks[i].pc = "pending"
    /\ \A k \in 1..(i - 1) : tasks[k].pc # "pending"

\* start
start(i) ==
    /\ tasks[i].handler = "start"
    /\ Dispatched(i)
    /\ reply_text(i, "welcome", <<>>, NoNews, get_main_keyboard,
                  [tasks[i] EXCEPT !.pc = "done"])
    /\ UNCHANGED call

\* get_news sends the request a second time.
send_request_twice(t) == [t EXCEPT !.pc = "awaiting", !.requests = @ + 2]

\* get_news up to "await client.get(url)": the one request is sent.
send_request(t) == [t EXCEPT !.pc = "awaiting", !.requests = @ + 1]

\* handle_query with topic == 'start': query.answer, then the "Welcome back" edit.
handle_query_start(i) ==
    /\ tasks[i].handler = "handle_query"
    /\ Dispatched(i)
    /\ tasks[i].data = start_key
    /\ edit_message_text(i, "welcome_back", <<>>, NoNews, get_main_keyboard,
                         [tasks[i] EXCEPT !.pc = "done"])
    /\ UNCHANGED call

\* handle_query with another topic: query.answer, the "Fetching latest ..." edit (no
\* reply_markup: the buttons go), then get_news up to its request.
handle_query_fetching(i) ==
    /\ tasks[i].handler = "handle_query"
    /\ Dispatched(i)
    /\ tasks[i].data # start_key
    /\ edit_message_text(i, "fetching", capitalize(tasks[i].data), NoNews, <<>>,
                         send_request(tasks[i]))
    /\ UNCHANGED call

\* search_news: the "Searching for news about ..." reply, then get_news up to its
\* request.
search_news_searching(i) ==
    /\ tasks[i].handler = "search_news"
    /\ Dispatched(i)
    /\ reply_text(i, "searching", capitalize(tasks[i].data), NoNews, <<>>,
                  send_request(tasks[i]))
    /\ UNCHANGED call

\* The provider call ends and get_news runs to its end: it returns its text to the
\* handler, or an exception leaves it and the handler.
get_news_response(i, outcomes) ==
    /\ tasks[i].pc = "awaiting"
    /\ \E o \in outcomes :
          LET news == get_news_result(resolve_query(tasks[i].data), o)
          IN tasks' = [tasks EXCEPT ![i].outcome = o, ![i].news = news,
                                    ![i].pc = IF news.t = "raise" THEN "raised"
                                              ELSE "returned"]
    /\ UNCHANGED <<messages, clobbered, call>>

\* handle_query, the "Latest ... News" edit.
handle_query_result(i) ==
    /\ tasks[i].handler = "handle_query"
    /\ tasks[i].pc = "returned"
    /\ edit_message_text(i, "latest", capitalize(tasks[i].data), tasks[i].news,
                         get_back_keyboard, [tasks[i] EXCEPT !.pc = "done"])
    /\ UNCHANGED call

\* search_news, the "Search Results for ..." reply.
search_news_result(i) ==
    /\ tasks[i].handler = "search_news"
    /\ tasks[i].pc = "returned"
    /\ reply_text(i, "search_results", capitalize(tasks[i].data), tasks[i].news,
                  get_back_keyboard, [tasks[i] EXCEPT !.pc = "done"])
    /\ UNCHANGED call

\* ------------------------------------------------------------------ the bot

\* The buttons the user presses and the texts the user sends.
BotKeys == {tech, ai, start_key}
BotTexts == {<<"A", "I">>}

OneArticle ==
    Article(JStr(<<"a", "_">>), JStr(<<"u">>), JAbsent, SrcObj(JStr(<<"s">>)))

\* What the provider call comes to.
BotOutcomes ==
    { TransportError,
      Response(500, InvalidBody),
      Response(200, ObjectBody(NoArticles)),
      Response(200, ObjectBody(ListArticles(<<OneArticle>>))) }

Next ==
    \/ StartCommand(MaxEvents)
    \/ PressButton(MaxEvents, BotKeys)
    \/ SendText(MaxEvents, BotTexts)
    \/ \E i \in 1..Len(tasks) : start(i)
    \/ \E i \in 1..Len(tasks) : handle_query_start(i)
    \/ \E i \in 1..Len(tasks) : handle_query_fetching(i)
    \/ \E i \in 1..Len(tasks) : search_news_searching(i)
    \/ \E i \in 1..Len(tasks) : get_news_response(i, BotOutcomes)
    \/ \E i \in 1..Len(tasks) : handle_query_result(i)
    \/ \E i \in 1..Len(tasks) : search_news_result(i)

Spec == Init /\ [][Next]_vars

\* ------------------------------------------------------------------ get_news called directly

\* get_news from its first line to "await client.get(url)".
get_news_call ==
    /\ call.pc = "start"
    /\ LET query == resolve_query(call.topic)
           url == build_url(query)
       IN call' = [call EXCEPT !.pc = "awaiting", !.query = query, !.url = url,
                               !.params = provider_params(request_query(url))]
    /\ UNCHANGED <<messages, tasks, clobbered>>

\* get_news from the end of the provider call to its return or raise.
get_news_return(outcomes) ==
    /\ call.pc = "awaiting"
    /\ \E o \in outcomes :
          LET result == get_news_result(call.query, o)
          IN call' = [call EXCEPT !.outcome = o, !.result = result,
                                  !.pc = IF result.t = "raise" THEN "raised" ELSE "returned"]
    /\ UNCHANGED <<messages, tasks, clobbered>>

\* A call of get_news with a topic of topics.
InitCall(topics) ==
    /\ messages = <<>>
    /\ tasks = <<>>
    /\ clobbered = {}
    /\ \E topic \in topics : call = [NoCall EXCEPT !.pc = "start", !.topic = topic]

\* All strings over alphabet of length at most n.
Strings(alphabet, n) == UNION {[1..k -> alphabet] : k \in 0..n}

\* ------------------------------------------------------------------ get_news: query and rendering

\* The topics of the direct calls: the four category keys, differently-cased
\* variants of them, the empty string, a phrase of the map, other strings.
CallTopics ==
    { tech, stocks, ai, crypto, start_key, <<>>,
      <<"T", "e", "c", "h">>, <<"T", "E", "C", "H">>, <<"A", "I">>, <<"a", "I">>,
      <<"t", "e", "c", "h", " ">>, query_map[tech], <<"a", "&", "i">> }

\* The members of the articles of the direct calls.
MemberValues == {JAbsent, JNull, JStr(<<>>), JStr(<<"x", "_">>)}
SourceValues == {SrcAbsent, SrcNull} \cup {SrcObj(n) : n \in MemberValues}

\* One-article lists over every combination of members.
MemberArticles ==
    { Article(ti, u, d, src) :
        ti \in MemberValues, u \in {JAbsent, JNull, JStr(<<"u">>)},
        d \in MemberValues, src \in SourceValues }

\* The articles of the longer lists: two that differ and one with a null source.
PoolArticles ==
    { Article(JStr(<<"a">>), JStr(<<"u">>), JStr(<<"d">>), SrcObj(JStr(<<"s">>))),
      Article(JStr(<<"b">>), JAbsent, JNull, SrcAbsent),
      Article(JStr(<<"c">>), JStr(<<"u">>), JStr(<<"d">>), SrcNull) }

StatusCodes == {200, 204, 301, 404, 500}

CallOutcomes ==
    {TransportError}
    \cup { Response(st, b) : st \in StatusCodes,
             b \in {InvalidBody, ArrayBody, ObjectBody(NoArticles), ObjectBody(NullArticles)} }
    \cup { Response(200, ObjectBody(ListArticles(<<a>>))) : a \in MemberArticles }
    \cup { Response(200, ObjectBody(ListArticles(l))) :
             l \in UNION {[1..n -> PoolArticles] : n \in 0..MaxArticles} }

NextGetNews ==
    \/ get_news_call
    \/ get_news_return(CallOutcomes)

SpecGetNews == InitCall(CallTopics) /\ [][NextGetNews]_vars

\* The call has got a successful response whose body is an object with a list of
\* n >= 1 articles, and has ended.
EndedOnList ==
    /\ call.pc \in {"returned", "raised"}
    /\ call.outcome.t = "response"
    /\ call.outcome.status \in 200..299
    /\ call.outcome.body.t = "object"
    /\ call.outcome.body.articles.t = "list"
    /\ call.outcome.body.articles.items # <<>>

ListItems == call.outcome.body.articles.items

\* C6: the query get_news resolves is the phrase of the category key for each of the
\* four keys (stocks: stock market, ai: artificial intelligence, crypto:
\* cryptocurrency, tech: technology) and the topic itself, unchanged, for every other
\* string, the empty string and the differently-cased keys included.
C6_QueryResolution ==
    call.pc \in {"awaiting", "returned", "raised"} =>
        call.query =
            CASE call.topic = <<"s", "t", "o", "c", "k", "s">> ->
                    <<"s", "t", "o", "c", "k", " ", "m", "a", "r", "k", "e", "t">>
              [] call.topic = <<"a", "i">> ->
                    <<"a", "r", "t", "i", "f", "i", "c", "i", "a", "l", " ",
                      "i", "n", "t", "e", "l", "l", "i", "g", "e", "n", "c", "e">>
              [] call.topic = <<"c", "r", "y", "p", "t", "o">> ->
                    <<"c", "r", "y", "p", "t", "o", "c", "u", "r", "r", "e", "n", "c", "y">>
              [] call.topic = <<"t", "e", "c", "h">> ->
                    <<"t", "e", "c", "h", "n", "o", "l", "o", "g", "y">>
              [] OTHER -> call.topic

\* A differently-cased key has gone through unchanged, into the no-results message.
C6_Witness ==
    /\ call.pc = "returned"
    /\ call.topic = <<"T", "e", "c", "h">>
    /\ call.query = <<"T", "e", "c", "h">>
    /\ call.result.kind = "no_results"
    /\ call.result.query = <<"T", "e", "c", "h">>

\* C7: for a successful response with a list of n >= 1 articles, get_news returns the
\* blocks of the first min(n, 5) articles, in the provider's order, and no others.
C7_FirstFive ==
    EndedOnList =>
        /\ call.result.t = "return"
        /\ call.result.kind = "articles"
        /\ Len(call.result.blocks) = Min(Len(ListItems), 5)
        /\ \A k \in 1..Len(call.result.blocks) :
              call.result.blocks[k] = article_block(ListItems[k])

\* The text a member is to be rendered as, by the fallback rule: the default for an
\* absent, null or empty member, the member itself otherwise ("x_" is rendered with
\* its underscore escaped).
Fallback(member, default) ==
    IF member.t \in {"absent", "null"} \/ member.v = <<>> THEN default
    ELSE IF member.v = <<"x", "_">> THEN <<"x", "\\", "_">> ELSE member.v

\* C9: in a successful response, every article's title, description and source name
\* is rendered as its default ("No title", "No description available.", "Unknown
\* Source") when it is absent, null or empty, also when the "source" object itself is
\* absent or null, and as itself otherwise.
C9_Fallbacks ==
    EndedOnList =>
        /\ call.result.t = "return"
        /\ call.result.kind = "articles"
        /\ \A k \in 1..Min(Len(ListItems), 5) :
              /\ call.result.blocks[k].title = Fallback(ListItems[k].title, NoTitle)
              /\ call.result.blocks[k].description =
                    Fallback(ListItems[k].description, NoDescription)
              /\ call.result.blocks[k].source =
                    IF ListItems[k].source.t \in {"absent", "null"} THEN UnknownSource
                    ELSE Fallback(ListItems[k].source.name, UnknownSource)

\* ------------------------------------------------------------------ get_news: escaping

EscAlphabet == {"a", "[", "]", "_", "*", "\\"}
Special == {"[", "]", "_", "*"}

\* One member of the article takes every string up to MaxFieldLen, the other two a
\* few strings.
EscRich == Strings(EscAlphabet, MaxFieldLen)
EscFew == {<<>>, <<"_">>, <<"a", "*">>}
EscArticles ==
    { Article(JStr(f[1]), JStr(<<"u">>), JStr(f[2]), SrcObj(JStr(f[3]))) :
        f \in (EscRich \X EscFew \X EscFew) \cup (EscFew \X EscRich \X EscFew)
                \cup (EscFew \X EscFew \X EscRich) }

EscOutcomes == { Response(200, ObjectBody(ListArticles(<<a>>))) : a \in EscArticles }

NextEscape ==
    \/ get_news_call
    \/ get_news_return(EscOutcomes)

SpecEscape == InitCall({tech, <<"a", "_">>}) /\ [][NextEscape]_vars

\* s with a backslash put before every "[", "]", "_" and "*" and nothing else changed:
\* character by character, in order.
RECURSIVE Backslashed(_)
Backslashed(s) ==
    IF s = <<>> THEN <<>>
    ELSE (IF Head(s) \in Special THEN <<"\\", Head(s)>> ELSE <<Head(s)>>)
             \o Backslashed(Tail(s))

\* The one article of the response, and the one block returned for it.
EscArticle == ListItems[1]
EscBlock == call.result.blocks[1]

\* C8 as stated: the rendered title, description and source name of an article are
\* the input strings with one backslash before every "[", "]", "_", "*" and nothing
\* else changed, each member on its own, for every string.
C8_Original ==
    (EndedOnList /\ call.result.kind = "articles") =>
        /\ EscBlock.title = Backslashed(EscArticle.title.v)
        /\ EscBlock.description = Backslashed(EscArticle.description.v)
        /\ EscBlock.source = Backslashed(EscArticle.source.name.v)

\* C8, amended: that holds of every non-empty string; an empty title, description or
\* source name is rendered as its default.
C8_Amended ==
    (EndedOnList /\ call.result.kind = "articles") =>
        /\ EscBlock.title =
              IF EscArticle.title.v = <<>> THEN NoTitle ELSE Backslashed(EscArticle.title.v)
        /\ EscBlock.description =
              IF EscArticle.description.v = <<>> THEN NoDescription
              ELSE Backslashed(EscArticle.description.v)
        /\ EscBlock.source =
              IF EscArticle.source.name.v = <<>> THEN UnknownSource
              ELSE Backslashed(EscArticle.source.name.v)

\* A title with a backslash, an underscore and a bracket beside a description and a
\* source that are escaped on their own.
C8_Witness ==
    /\ call.pc = "returned"
    /\ EscArticle.title.v = <<"\\", "_", "[">>
    /\ EscBlock.title = <<"\\", "\\", "_", "\\", "[">>
    /\ EscArticle.description.v = <<"a", "*">>
    /\ EscBlock.description = <<"a", "\\", "*">>
    /\ EscArticle.source.name.v = <<"_">>
    /\ EscBlock.source = <<"\\", "_">>

\* ------------------------------------------------------------------ get_news: the request

UrlAlphabet == {"a", " ", "&", "=", "#", "+"}

\* The text messages search_news is given.
UrlTexts == {s \in Strings(UrlAlphabet, MaxTextLen) : is_text(s)}

UrlOutcomes == {TransportError, Response(200, ObjectBody(NoArticles))}

NextUrl ==
    \/ get_news_call
    \/ get_news_return(UrlOutcomes)

SpecUrl == InitCall(UrlTexts) /\ [][NextUrl]_vars

\* C5: the provider reads, from the request of a free-text message s, the search
\* phrase q = s exactly, and language=en, sortBy=publishedAt and the API key as they
\* are for every s.
C5_QueryVerbatim ==
    call.pc \in {"awaiting", "returned", "raised"} =>
        /\ param_values(call.params, P_q) = <<call.topic>>
        /\ param_values(call.params, P_language) = <<V_en>>
        /\ param_values(call.params, P_sortBy) = <<V_publishedAt>>
        /\ param_values(call.params, P_apiKey) = <<NEWS_API_KEY>>
        /\ Len(call.params) = 4

\* ------------------------------------------------------------------ the bot: claims

TaskIds == 1..Len(tasks)

\* The provider call of invocation i failed: a transport failure, a status that is
\* not 2xx, or a body that is not JSON.
ProviderUnavailable(i) ==
    \/ tasks[i].outcome.t = "transport_error"
    \/ /\ tasks[i].outcome.t = "response"
       /\ \/ tasks[i].outcome.status \notin 200..299
          \/ tasks[i].outcome.body.t = "invalid"

\* Invocation i is one that calls get_news: a category press or a text message.
Fetches(i) ==
    \/ tasks[i].handler = "search_news"
    \/ tasks[i].handler = "handle_query" /\ tasks[i].data # <<"s", "t", "a", "r", "t">>

\* C1: whatever the provider call comes to, get_news returns a text to the handler:
\* no exception leaves it.
C1_GetNewsAlwaysReturns ==
    \A i \in TaskIds :
        tasks[i].outcome.t # "none" => tasks[i].news.t = "return" /\ tasks[i].pc # "raised"

\* C2: every inbound update causes at most one request to the provider; /start and
\* the press of the 'start' button cause none; and a result message is written only
\* by an invocation that has sent its one request and has got the provider's outcome.
C2_OneRequest ==
    /\ \A i \in TaskIds :
          /\ tasks[i].requests <= 1
          /\ ~Fetches(i) => tasks[i].requests = 0
          /\ tasks[i].outcome.t # "none" => tasks[i].requests = 1
    /\ \A m \in 1..Len(messages) :
          messages[m].screen \in ResultScreens =>
              /\ tasks[messages[m].by].requests = 1
              /\ tasks[messages[m].by].outcome.t # "none"

\* A category press and a text message have each shown their result after their one
\* request, and a press of 'start' has ended with no request.
C2_Witness ==
    /\ \E i \in TaskIds :
          /\ tasks[i].handler = "handle_query" /\ tasks[i].data = start_key
          /\ tasks[i].pc = "done" /\ tasks[i].requests = 0
    /\ \E i \in TaskIds :
          /\ tasks[i].handler = "handle_query" /\ tasks[i].pc = "done"
          /\ tasks[i].requests = 1 /\ tasks[i].outcome.t = "response"
    /\ \E m \in 1..Len(messages) : messages[m].screen = "latest"

OwnDisplay(i, screen) ==
    << IF screen \in MenuScreens THEN <<>> ELSE capitalize(tasks[i].data),
       IF screen \in ResultScreens
       THEN get_news_result(resolve_query(tasks[i].data), tasks[i].outcome)
       ELSE NoNews >>

C4_ApologyOnFailure ==
    \A i \in TaskIds :
        ProviderUnavailable(i) => tasks[i].news = Apology /\ tasks[i].requests = 1

\* C10: a message showing a result carries the one button 'start' (Back to
\* Categories), a message showing the welcome or the welcome-back text carries the
\* four category buttons, and an invocation of a category press or of a text message
\* that has run to its end has left such a result message, as long as no other
\* invocation has written over it.
C10_TwoScreens ==
    /\ \A m \in 1..Len(messages) :
          /\ messages[m].screen \in ResultScreens =>
                 messages[m].reply_markup = << <<"s", "t", "a", "r", "t">> >>
          /\ messages[m].screen \in MenuScreens =>
                 messages[m].reply_markup =
                     << <<"t", "e", "c", "h">>, <<"s", "t", "o", "c", "k", "s">>,
                        <<"a", "i">>, <<"c", "r", "y", "p", "t", "o">> >>
    /\ \A i \in TaskIds :
          (Fetches(i) /\ tasks[i].pc = "done") =>
              \E m \in tasks[i].msgs :
                  /\ \A k \in tasks[i].msgs : k <= m
                  /\ messages[m].by = i =>
                         /\ messages[m].screen \in ResultScreens
                         /\ messages[m].news = tasks[i].news
                         /\ messages[m].reply_markup = << <<"s", "t", "a", "r", "t">> >>

\* A category press has ended on its result, and the press of the Back button under
\* that result has brought the four category buttons back onto the message.
C10_Witness ==
    \E i, j \in TaskIds :
        /\ tasks[i].handler = "handle_query" /\ tasks[i].data = tech
        /\ tasks[i].pc = "done" /\ tasks[i].news.t = "return"
        /\ i \notin tasks[j].peers
        /\ tasks[j].handler = "handle_query" /\ tasks[j].data = start_key
        /\ tasks[j].pc = "done" /\ tasks[j].msg = tasks[i].msg
        /\ messages[tasks[j].msg].screen = "welcome_back"
        /\ messages[tasks[j].msg].reply_markup = get_main_keyboard

====
